---- MODULE Spec2Model ----
(***************************************************************************)
(* ColorfulTodo (src/agent/to-do list/app.js): the Task model, the         *)
(* TaskManager store, renderTasks, the form / filter / theme handlers and  *)
(* the drag-and-drop handlers, as a state machine over the page's state.   *)
(*                                                                         *)
(* JavaScript values are tagged records, strings are sequences of          *)
(* one-character strings, Task instances live in a heap and are named by   *)
(* references, and the value of a localStorage key is the JSON document    *)
(* it holds (or absent / empty / unparseable text).                        *)
(***************************************************************************)
EXTENDS Integers, Sequences, FiniteSets, TLC

VARIABLES
  tasks,       \* TaskManager.tasks: sequence of references into heap
  heap,        \* the Task instances: heap[r] is the object with reference r
  filter,      \* TaskManager.filter
  storage,     \* localStorage['colorfulTodoTasks']
  themeStored, \* localStorage['colorfulTodoTheme']
  darkTheme,   \* document.body has class 'dark-theme'
  dom,         \* children of #task-list: sequence of li elements
  dragData,    \* dataTransfer 'text/plain' of the gesture in progress
  loaded,      \* the DOMContentLoaded handler has run since the script did
  phase,       \* the drag gesture: "idle" (none in progress),
               \* "dragging" (between dragstart and drop/dragend),
               \* "dropped" (drop handled, dragend pending)
  now,         \* the clock read by Date.now()
  last         \* the handler or store method that ran last, and its trace

vars == <<tasks, heap, filter, storage, themeStored, darkTheme, dom,
          dragData, loaded, phase, now, last>>

-----------------------------------------------------------------------------
(* Bounds of the model *)

\* most tasks the collection grows to by addTask
MaxTasks == 2
\* most task records in the array found in storage at page load
MaxStored == 2
\* most clock ticks (milliseconds that pass) in a run
MaxTicks == 1

-----------------------------------------------------------------------------
(* JavaScript values *)

Undef == [t |-> "undefined"]
Null == [t |-> "null"]
NaN == [t |-> "nan"]
\* a number that is an integer (-0 and 0 are one value: no code here tells
\* them apart)
Num(n) == [t |-> "num", n |-> n]
\* a number p / q that is no integer: q > 1, p and q without common divisor
Frac(p, q) == [t |-> "frac", p |-> p, q |-> q]
\* Infinity and -Infinity
Inf(neg) == [t |-> "inf", neg |-> neg]
Str(s) == [t |-> "str", s |-> s]
Bool(b) == [t |-> "bool", b |-> b]

IsStr(v) == v.t = "str"

\* ToBoolean: what `!v`, `if (v)` and filter(Boolean) test
Truthy(v) ==
  CASE v.t = "undefined" -> FALSE
    [] v.t = "null" -> FALSE
    [] v.t = "nan" -> FALSE
    [] v.t = "num" -> v.n # 0
    [] v.t = "str" -> v.s # <<>>
    [] v.t = "bool" -> v.b
    [] OTHER -> TRUE

\* an array or an object: a value with an identity of its own
IsObject(v) == v.t \in {"arr", "obj"}

\* the value read from the property field of the Task object ref. An array or
\* object read from there is that one object: it carries, as own, the place
\* it is held at. One that carries no place is an object made elsewhere (an
\* argument a caller built), which is no object of the store.
Held(v, ref, field) ==
  IF v.t = "arr" THEN [t |-> "arr", items |-> v.items, own |-> <<ref, field>>]
  ELSE IF v.t = "obj" THEN [t |-> "obj", props |-> v.props, own |-> <<ref, field>>]
  ELSE v

\* two arrays or objects are one and the same object
SameObject(a, b) ==
  "own" \in DOMAIN a /\ "own" \in DOMAIN b /\ a.own = b.own

\* a === b: primitives by value (NaN equals nothing), objects by identity
StrictEq(a, b) ==
  IF IsObject(a) \/ IsObject(b)
  THEN IsObject(a) /\ IsObject(b) /\ SameObject(a, b)
  ELSE a.t # "nan" /\ a = b

\* key equality of Map (SameValueZero): as ===, but NaN equals NaN
SameValueZero(a, b) ==
  IF IsObject(a) \/ IsObject(b)
  THEN IsObject(a) /\ IsObject(b) /\ SameObject(a, b)
  ELSE a = b

\* WhiteSpace and LineTerminator of ECMAScript, the characters trim() and
\* Number() skip. A character outside ASCII is written as the six characters
\* of its escape, \uXXXX.
WhiteSpace ==
  {" ", "\t", "\n", "\r", "\f", "\\u000B", "\\u00A0", "\\u1680",
   "\\u2000", "\\u2001", "\\u2002", "\\u2003", "\\u2004", "\\u2005",
   "\\u2006", "\\u2007", "\\u2008", "\\u2009", "\\u200A",
   "\\u2028", "\\u2029", "\\u202F", "\\u205F", "\\u3000", "\\uFEFF"}

IsSpace(c) == c \in WhiteSpace

RECURSIVE TrimStart(_)
TrimStart(s) ==
  IF s # <<>> /\ IsSpace(Head(s)) THEN TrimStart(Tail(s)) ELSE s

RECURSIVE TrimEnd(_)
TrimEnd(s) ==
  IF s # <<>> /\ IsSpace(s[Len(s)]) THEN TrimEnd(SubSeq(s, 1, Len(s) - 1)) ELSE s

\* String.prototype.trim on a string value
Trim(v) == Str(TrimEnd(TrimStart(v.s)))

Digits == <<"0", "1", "2", "3", "4", "5", "6", "7", "8", "9">>

DigitValue(c) == CHOOSE d \in 0..9 : Digits[d + 1] = c

IsDigit(c) == \E d \in 0..9 : Digits[d + 1] = c

RECURSIVE NatToChars(_)
NatToChars(n) ==
  IF n < 10 THEN <<Digits[n + 1]>>
  ELSE Append(NatToChars(n \div 10), Digits[(n % 10) + 1])

RECURSIVE CharsToNat(_)
CharsToNat(s) ==
  IF s = <<>> THEN 0
  ELSE CharsToNat(SubSeq(s, 1, Len(s) - 1)) * 10 + DigitValue(s[Len(s)])

Chars(word) == [i \in 1..Len(word) |-> SubSeq(word, i, i)]

Abs(n) == IF n < 0 THEN 0 - n ELSE n

RECURSIVE Pow(_, _)
Pow(base, k) == IF k = 0 THEN 1 ELSE base * Pow(base, k - 1)

RECURSIVE Gcd(_, _)
Gcd(a, b) == IF b = 0 THEN a ELSE Gcd(b, a % b)

\* the number p * 10^e
Scaled(p, e) ==
  IF p = 0 THEN Num(0)
  ELSE IF e >= 0 THEN Num(p * Pow(10, e))
  ELSE LET den == Pow(10, 0 - e)
           g == Gcd(Abs(p), den)
       IN IF den \div g = 1 THEN Num(p \div g) ELSE Frac(p \div g, den \div g)

RECURSIVE Zeros(_)
Zeros(k) == IF k = 0 THEN <<>> ELSE <<"0">> \o Zeros(k - 1)

\* Number::toString of p / q, q > 1 a divisor of a power of ten, p > 0
FracToChars(p, q) ==
  LET k == CHOOSE j \in 1..9 : Pow(10, j) % q = 0 /\ \A i \in 1..(j - 1) : Pow(10, i) % q # 0
      digits == NatToChars(p * (Pow(10, k) \div q))
      n == Len(digits) - k
  IN IF n > 0
     THEN SubSeq(digits, 1, n) \o <<".">> \o SubSeq(digits, n + 1, Len(digits))
     ELSE IF n > 0 - 6
     THEN <<"0", ".">> \o Zeros(0 - n) \o digits
     ELSE <<Head(digits)>>
          \o (IF Len(digits) > 1 THEN <<".">> \o Tail(digits) ELSE <<>>)
          \o <<"e", "-">> \o NatToChars(1 - n)

RECURSIVE JoinComma(_)
JoinComma(parts) ==
  IF parts = <<>> THEN <<>>
  ELSE IF Len(parts) = 1 THEN parts[1]
  ELSE parts[1] \o <<",">> \o JoinComma(Tail(parts))

\* String(v), as done by `li.dataset.id = task.id` and dataTransfer.setData
RECURSIVE StringOf(_)
StringOf(v) ==
  CASE v.t = "str" -> v
    [] v.t = "num" -> IF v.n < 0 THEN Str(<<"-">> \o NatToChars(0 - v.n))
                      ELSE Str(NatToChars(v.n))
    [] v.t = "frac" -> IF v.p < 0 THEN Str(<<"-">> \o FracToChars(0 - v.p, v.q))
                       ELSE Str(FracToChars(v.p, v.q))
    [] v.t = "inf" -> IF v.neg THEN Str(Chars("-Infinity")) ELSE Str(Chars("Infinity"))
    [] v.t = "undefined" -> Str(Chars("undefined"))
    [] v.t = "null" -> Str(Chars("null"))
    [] v.t = "nan" -> Str(Chars("NaN"))
    [] v.t = "bool" -> IF v.b THEN Str(Chars("true")) ELSE Str(Chars("false"))
    [] v.t = "arr" ->     \* Array.prototype.join: null and undefined give ''
         Str(JoinComma([i \in 1..Len(v.items) |->
                          IF v.items[i] = Null \/ v.items[i] = Undef THEN <<>>
                          ELSE StringOf(v.items[i]).s]))
    [] v.t = "obj" -> Str(Chars("[object Object]"))

\* the number of digits (of the radix) a string starts with
DigitPrefix(s, digitChars) ==
  CHOOSE n \in 0..Len(s) :
    /\ \A i \in 1..n : s[i] \in digitChars
    /\ n < Len(s) => s[n + 1] \notin digitChars

DecimalChars == {Digits[i] : i \in 1..10}

RadixDigits == <<"0", "1", "2", "3", "4", "5", "6", "7", "8", "9",
                 "a", "b", "c", "d", "e", "f">>
RadixDigitsUpper == <<"0", "1", "2", "3", "4", "5", "6", "7", "8", "9",
                      "A", "B", "C", "D", "E", "F">>

RadixValue(c) ==
  CHOOSE d \in 0..15 : RadixDigits[d + 1] = c \/ RadixDigitsUpper[d + 1] = c

RadixChars(radix) ==
  {RadixDigits[i] : i \in 1..radix} \cup {RadixDigitsUpper[i] : i \in 1..radix}

RECURSIVE CharsToNatRadix(_, _)
CharsToNatRadix(s, radix) ==
  IF s = <<>> THEN 0
  ELSE CharsToNatRadix(SubSeq(s, 1, Len(s) - 1), radix) * radix + RadixValue(s[Len(s)])

\* 0x.., 0o.., 0b..: the digits must fill the rest of the string
NonDecimalOf(s, radix) ==
  LET body == SubSeq(s, 3, Len(s)) IN
  IF body # <<>> /\ \A i \in 1..Len(body) : body[i] \in RadixChars(radix)
  THEN Num(CharsToNatRadix(body, radix))
  ELSE NaN

\* StrUnsignedDecimalLiteral with the sign it was given: Infinity, or digits
\* with an optional fraction and an optional exponent
UnsignedDecimalOf(s, negative) ==
  LET sign == IF negative THEN 0 - 1 ELSE 1 IN
  IF s = Chars("Infinity") THEN Inf(negative)
  ELSE
    LET a == DigitPrefix(s, DecimalChars)
        afterInt == SubSeq(s, a + 1, Len(s))
        dot == afterInt # <<>> /\ Head(afterInt) = "."
        afterDot == IF dot THEN Tail(afterInt) ELSE afterInt
        b == IF dot THEN DigitPrefix(afterDot, DecimalChars) ELSE 0
        rest == SubSeq(afterDot, b + 1, Len(afterDot))
        mantissa == CharsToNat(SubSeq(s, 1, a) \o SubSeq(afterDot, 1, b))
        hasExp == rest # <<>> /\ Head(rest) \in {"e", "E"}
        expPart == IF hasExp THEN Tail(rest) ELSE <<>>
        expSigned == expPart # <<>> /\ Head(expPart) \in {"+", "-"}
        expDigits == IF expSigned THEN Tail(expPart) ELSE expPart
        expOk == expDigits # <<>> /\ \A i \in 1..Len(expDigits) : IsDigit(expDigits[i])
    IN IF a + b = 0 THEN NaN
       ELSE IF rest = <<>> THEN Scaled(sign * mantissa, 0 - b)
       ELSE IF hasExp /\ expOk
       THEN IF expSigned /\ Head(expPart) = "-"
            THEN Scaled(sign * mantissa, 0 - b - CharsToNat(expDigits))
            ELSE Scaled(sign * mantissa, CharsToNat(expDigits) - b)
       ELSE NaN

\* StringToNumber: Number(s) of a string, within the integers TLC holds
NumberOfString(chars) ==
  LET s == TrimEnd(TrimStart(chars)) IN
  IF s = <<>> THEN Num(0)
  ELSE IF Len(s) >= 2 /\ s[1] = "0" /\ s[2] \in {"x", "X"} THEN NonDecimalOf(s, 16)
  ELSE IF Len(s) >= 2 /\ s[1] = "0" /\ s[2] \in {"o", "O"} THEN NonDecimalOf(s, 8)
  ELSE IF Len(s) >= 2 /\ s[1] = "0" /\ s[2] \in {"b", "B"} THEN NonDecimalOf(s, 2)
  ELSE IF s[1] = "-" THEN UnsignedDecimalOf(Tail(s), TRUE)
  ELSE IF s[1] = "+" THEN UnsignedDecimalOf(Tail(s), FALSE)
  ELSE UnsignedDecimalOf(s, FALSE)

\* Number(v)
NumberOf(v) ==
  CASE v.t = "num" -> v
    [] v.t = "frac" -> v
    [] v.t = "inf" -> v
    [] v.t = "nan" -> NaN
    [] v.t = "undefined" -> NaN
    [] v.t = "null" -> Num(0)
    [] v.t = "bool" -> IF v.b THEN Num(1) ELSE Num(0)
    [] v.t = "str" -> NumberOfString(v.s)
    [] v.t = "arr" -> NumberOfString(StringOf(v).s)   \* ToPrimitive, then string
    [] v.t = "obj" -> NumberOfString(StringOf(v).s)

-----------------------------------------------------------------------------
(* 1. Data model: class Task *)

\* new Task(id, title, description = '', completed = false)
NewTask(id, title, description, completed) ==
  [id |-> id,
   title |-> title,
   description |-> IF description = Undef THEN Str(<<>>) ELSE description,
   completed |-> IF completed = Undef THEN Bool(FALSE) ELSE completed]

\* toggleComplete, were the flag set instead of negated
toggleCompleteSetsDone(task) == [task EXCEPT !.completed = Bool(TRUE)]

\* Task.prototype.toggleComplete
toggleComplete(task) == [task EXCEPT !.completed = Bool(~Truthy(task.completed))]

\* update, were every property that is present assigned, whatever its type
updateUntyped(task, data) ==
  [task EXCEPT
     !.title = IF data.title # Undef THEN data.title ELSE @,
     !.description = IF data.description # Undef THEN data.description ELSE @]

\* Task.prototype.update({title, description})
update(task, data) ==
  [task EXCEPT
     !.title = IF IsStr(data.title) THEN data.title ELSE @,
     !.description = IF IsStr(data.description) THEN data.description ELSE @]

-----------------------------------------------------------------------------
(* The persistence medium: values of a localStorage key, and JSON *)

Absent == [k |-> "absent"]     \* getItem returns null
EmptyText == [k |-> "empty"]   \* the empty string
Garbage == [k |-> "garbage"]   \* text JSON.parse rejects
Json(v) == [k |-> "json", v |-> v]  \* the text of the JSON document v

JArr(items) == [t |-> "arr", items |-> items]
JObj(props) == [t |-> "obj", props |-> props]

\* JSON.stringify of a value inside a document, at every depth: NaN, the
\* infinities and an undefined array element are written as null, a property
\* whose value is undefined is left out
RECURSIVE JsonOfValue(_)
JsonOfValue(v) ==
  CASE v.t \in {"nan", "inf", "undefined"} -> Null
    [] v.t = "arr" -> JArr([i \in 1..Len(v.items) |-> JsonOfValue(v.items[i])])
    [] v.t = "obj" ->
         JObj([key \in {x \in DOMAIN v.props : v.props[x] # Undef} |->
                 JsonOfValue(v.props[key])])
    [] OTHER -> v

\* JSON.stringify of an object: properties whose value is undefined are omitted
JsonOfObject(obj) ==
  JObj([key \in {x \in DOMAIN obj : obj[x] # Undef} |-> JsonOfValue(obj[key])])

\* obj.key on a parsed JSON value other than null: a missing property, and any
\* property of a number, string, boolean or array the model reads, is undefined
Prop(obj, key) ==
  IF obj.t = "obj" /\ key \in DOMAIN obj.props THEN obj.props[key] ELSE Undef

-----------------------------------------------------------------------------
(* 2. State management: the TaskManager singleton.                         *)
(* A world w is the record of everything a method reads or writes:         *)
(* tasks, heap, filter, storage, dom; w.trace lists, for the handler that  *)
(* is running, the store methods entered and every write of the storage    *)
(* key ("save") and every rebuild of the list ("render").                  *)

\* this.tasks as the sequence of the Task objects it refers to
Deref(tks, hp) == [i \in 1..Len(tks) |-> hp[tks[i]]]

\* the plain {id, title, description, completed} objects of saveToStorage
Plain(task) ==
  [id |-> task.id, title |-> task.title,
   description |-> task.description, completed |-> task.completed]

\* JSON.stringify(plain)
Stringify(tks, hp) ==
  Json(JArr([i \in 1..Len(tks) |-> JsonOfObject(Plain(hp[tks[i]]))]))

\* a store method is entered
Enter(w, method) == [w EXCEPT !.trace = Append(@, method)]

\* TaskManager.saveToStorage
saveToStorage(w) ==
  [w EXCEPT !.storage = Stringify(w.tasks, w.heap), !.trace = Append(@, "save")]

\* TaskOfParsed, were the completed flag not handed to the constructor
TaskOfParsedForgetsCompleted(obj) ==
  NewTask(Prop(obj, "id"), Prop(obj, "title"), Prop(obj, "description"), Undef)

\* parsed.map(obj => new Task(obj.id, obj.title, obj.description, obj.completed))
TaskOfParsed(obj) ==
  NewTask(Prop(obj, "id"), Prop(obj, "title"),
          Prop(obj, "description"), Prop(obj, "completed"))

\* TaskManager.loadFromStorage
loadFromStorage(w) ==
  LET raw == w.storage IN
  IF raw.k \in {"absent", "empty"} THEN w             \* if (!raw) return
  ELSE IF raw.k = "garbage" THEN w                    \* JSON.parse throws: caught
  ELSE IF raw.v.t # "arr" THEN w                      \* not Array.isArray
  ELSE LET items == raw.v.items IN
       IF \E i \in 1..Len(items) : items[i] = Null
       THEN w                                         \* null.id throws: caught
       ELSE LET base == Len(w.heap) IN
            [w EXCEPT
               !.heap = w.heap \o [i \in 1..Len(items) |-> TaskOfParsed(items[i])],
               !.tasks = [i \in 1..Len(items) |-> base + i]]

\* Shown, were the tests of 'active' and 'completed' exchanged
ShownExchanged(task, f) ==
  IF f = "active" THEN Truthy(task.completed)
  ELSE IF f = "completed" THEN ~Truthy(task.completed)
  ELSE TRUE

\* the filter predicate of renderTasks
Shown(task, f) ==
  IF f = "active" THEN ~Truthy(task.completed)
  ELSE IF f = "completed" THEN Truthy(task.completed)
  ELSE TRUE

\* node.textContent = v: null and undefined give the empty string
TextContent(v) == IF v = Undef \/ v = Null THEN Str(<<>>) ELSE StringOf(v)

\* the li that renderTasks builds for a task: its closure's task, its
\* dataset.id, whether it carries the class 'dragging', the text of its
\* title span
NewLi(ref, hp) ==
  [task |-> ref, id |-> StringOf(hp[ref].id), dragging |-> FALSE,
   title |-> TextContent(hp[ref].title)]

\* 4. renderTasks: clear the list, then one li per task that passes the filter
renderTasks(w) ==
  LET filtered == SelectSeq(w.tasks, LAMBDA r : Shown(w.heap[r], w.filter)) IN
  [w EXCEPT !.dom = [i \in 1..Len(filtered) |-> NewLi(filtered[i], w.heap)],
            !.trace = Append(@, "render")]

\* addTask, were the new task put first (unshift for push)
addTaskInFront(w0, t, title, description) ==
  LET w == Enter(w0, "addTask")
      id == Num(t)
      newTask == NewTask(id, title, description, Undef)
      ref == Len(w.heap) + 1
      pushed == [w EXCEPT !.heap = Append(w.heap, newTask),
                          !.tasks = <<ref>> \o w.tasks]
  IN renderTasks(saveToStorage(pushed))

\* TaskManager.addTask(title, description = '') at clock value t
addTask(w0, t, title, description) ==
  LET w == Enter(w0, "addTask")
      id == Num(t)
      newTask == NewTask(id, title, description, Undef)
      ref == Len(w.heap) + 1
      pushed == [w EXCEPT !.heap = Append(w.heap, newTask),
                          !.tasks = Append(w.tasks, ref)]
  IN renderTasks(saveToStorage(pushed))

\* this.tasks.findIndex(t => t.id === id), 0 for -1; find returns that element
findIndex(w, id) ==
  LET hits == {i \in 1..Len(w.tasks) :
                 StrictEq(Held(w.heap[w.tasks[i]].id, w.tasks[i], "id"), id)} IN
  IF hits = {} THEN 0 ELSE CHOOSE i \in hits : \A j \in hits : i <= j

\* the sequence without its element at index i: splice(i, 1)
RemoveAt(seq, i) == SubSeq(seq, 1, i - 1) \o SubSeq(seq, i + 1, Len(seq))

\* deleteTask, were the test of index left out: splice(-1, 1) removes the
\* last element
deleteTaskUnguarded(w, id) ==
  LET e == Enter(w, "deleteTask")
      index == findIndex(e, id)
      at == IF index > 0 THEN index ELSE Len(e.tasks)
  IN renderTasks(saveToStorage([e EXCEPT !.tasks = RemoveAt(e.tasks, at)]))

\* TaskManager.deleteTask(id)
deleteTask(w, id) ==
  LET e == Enter(w, "deleteTask")
      index == findIndex(e, id)
  IN IF index > 0
     THEN renderTasks(saveToStorage([e EXCEPT !.tasks = RemoveAt(e.tasks, index)]))
     ELSE e

\* TaskManager.editTask(id, data)
editTask(w, id, data) ==
  LET e == Enter(w, "editTask")
      index == findIndex(e, id)
  IN IF index > 0
     THEN renderTasks(saveToStorage(
            [e EXCEPT !.heap[e.tasks[index]] = update(@, data)]))
     ELSE e

\* toggleTaskComplete, were the list not rebuilt after the change
toggleTaskCompleteUnrendered(w, id) ==
  LET e == Enter(w, "toggleTaskComplete")
      index == findIndex(e, id)
  IN IF index > 0
     THEN saveToStorage([e EXCEPT !.heap[e.tasks[index]] = toggleComplete(@)])
     ELSE e

\* TaskManager.toggleTaskComplete(id)
toggleTaskComplete(w, id) ==
  LET e == Enter(w, "toggleTaskComplete")
      index == findIndex(e, id)
  IN IF index > 0
     THEN renderTasks(saveToStorage(
            [e EXCEPT !.heap[e.tasks[index]] = toggleComplete(@)]))
     ELSE e

\* idToTask.get(key) of reorderTasks: the Map built from this.tasks keeps, for
\* a repeated key, the entry set last; 0 stands for undefined
idToTaskGet(w, key) ==
  LET hits == {i \in 1..Len(w.tasks) :
                 SameValueZero(Held(w.heap[w.tasks[i]].id, w.tasks[i], "id"), key)} IN
  IF hits = {} THEN 0
  ELSE w.tasks[CHOOSE i \in hits : \A j \in hits : i >= j]

\* reorderTasks, were the new order not saved
reorderTasksUnsaved(w, newOrderArray) ==
  LET e == Enter(w, "reorderTasks")
      mapped == [i \in 1..Len(newOrderArray) |->
                   idToTaskGet(e, NumberOf(newOrderArray[i]))]
  IN [e EXCEPT !.tasks = SelectSeq(mapped, LAMBDA r : r # 0)]

\* TaskManager.reorderTasks(newOrderArray): saves, does not render
reorderTasks(w, newOrderArray) ==
  LET e == Enter(w, "reorderTasks")
      mapped == [i \in 1..Len(newOrderArray) |->
                   idToTaskGet(e, NumberOf(newOrderArray[i]))]
  IN saveToStorage([e EXCEPT !.tasks = SelectSeq(mapped, LAMBDA r : r # 0)])

\* setFilter, were the collection cut down to the tasks the filter shows
setFilterOnCollection(w, f) ==
  LET e == [Enter(w, "setFilter") EXCEPT !.filter = f] IN
  renderTasks([e EXCEPT !.tasks = SelectSeq(e.tasks, LAMBDA r : Shown(e.heap[r], f))])

\* TaskManager.setFilter(filter)
setFilter(w, f) == renderTasks([Enter(w, "setFilter") EXCEPT !.filter = f])

-----------------------------------------------------------------------------
(* 5.-8. Event handlers, as functions of the world *)

\* the Task object a li's listeners close over, its properties as read from it
TaskOfLi(w, i) ==
  LET ref == w.dom[i].task
      task == w.heap[ref]
  IN [id |-> Held(task.id, ref, "id"),
      title |-> Held(task.title, ref, "title"),
      description |-> Held(task.description, ref, "description"),
      completed |-> Held(task.completed, ref, "completed")]

\* submit, were the title not trimmed before the test
submitUntrimmed(w, t, titleValue, descValue) ==
  IF ~Truthy(titleValue) THEN w ELSE addTask(w, t, Trim(titleValue), Trim(descValue))

\* newTaskForm 'submit' with the two inputs' values, at clock value t
submit(w, t, titleValue, descValue) ==
  LET title == Trim(titleValue)
      desc == Trim(descValue)
  IN IF ~Truthy(title) THEN w ELSE addTask(w, t, title, desc)

\* checkbox 'change' of the i-th li
checkboxChange(w, i) == toggleTaskComplete(w, TaskOfLi(w, i).id)

\* titleBlur, were the new title not compared with the task's
titleBlurUncompared(w, i, text) ==
  LET newTitle == Trim(text)
      task == TaskOfLi(w, i)
  IN IF Truthy(newTitle)
     THEN editTask(w, task.id, [title |-> newTitle, description |-> Undef])
     ELSE [w EXCEPT !.dom[i].title = TextContent(task.title)]

\* titleBlur, were an empty new title not turned away
titleBlurAcceptsEmpty(w, i, text) ==
  LET newTitle == Trim(text)
      task == TaskOfLi(w, i)
  IN IF ~StrictEq(newTitle, task.title)
     THEN editTask(w, task.id, [title |-> newTitle, description |-> Undef])
     ELSE [w EXCEPT !.dom[i].title = TextContent(task.title)]

\* titleSpan 'blur' of the i-th li, the span holding text
titleBlur(w, i, text) ==
  LET newTitle == Trim(text)
      task == TaskOfLi(w, i)
      typed == [w EXCEPT !.dom[i].title = text]
  IN IF Truthy(newTitle) /\ ~StrictEq(newTitle, task.title)
     THEN editTask(typed, task.id, [title |-> newTitle, description |-> Undef])
     ELSE [typed EXCEPT !.dom[i].title = TextContent(task.title)]

\* descP 'blur' of the i-th li, the paragraph holding text
descBlur(w, i, text) ==
  LET newDesc == Trim(text)
      task == TaskOfLi(w, i)
  IN IF ~StrictEq(newDesc, task.description)
     THEN editTask(w, task.id, [title |-> Undef, description |-> newDesc])
     ELSE w

\* delete button 'click' of the i-th li
deleteClick(w, i) == deleteTask(w, TaskOfLi(w, i).id)

\* li 'dragstart': the class 'dragging' is added to the i-th li
dragStart(w, i) == [w EXCEPT !.dom[i].dragging = TRUE]

\* dragEnd, were the order of the list committed when the gesture ends
dragEndCommits(w) ==
  LET ended == [w EXCEPT !.dom = [i \in 1..Len(w.dom) |->
                                    [w.dom[i] EXCEPT !.dragging = FALSE]]]
  IN renderTasks(reorderTasks(ended, [i \in 1..Len(w.dom) |-> w.dom[i].id]))

\* li 'dragend': the class is removed from the li the gesture started on
dragEnd(w) ==
  [w EXCEPT !.dom = [i \in 1..Len(w.dom) |-> [w.dom[i] EXCEPT !.dragging = FALSE]]]

\* taskList.querySelector('.dragging'): index of the first such li, 0 for null
queryDragging(w) ==
  LET hits == {i \in 1..Len(w.dom) : w.dom[i].dragging} IN
  IF hits = {} THEN 0 ELSE CHOOSE i \in hits : \A j \in hits : i <= j

\* parent.insertBefore(node, ref) on the list, by index: the d-th li is taken
\* out and put before the li that was at index at (Len + 1 for null: append)
insertBefore(list, d, at) ==
  LET node == list[d]
      before == SelectSeq([i \in 1..Len(list) |-> i], LAMBDA i : i < at /\ i # d)
      after == SelectSeq([i \in 1..Len(list) |-> i], LAMBDA i : i >= at /\ i # d)
  IN [i \in 1..Len(before) |-> list[before[i]]] \o <<node>> \o
     [i \in 1..Len(after) |-> list[after[i]]]

\* li 'dragover' on the i-th li: pointer at clientY, the li's box at top with
\* height, the page scrolled by scrollY
dragOver(w, i, clientY, top, height, scrollY) ==
  LET d == queryDragging(w) IN
  IF d = 0 \/ d = i THEN w
  ELSE LET offset == clientY - top + scrollY IN
       IF 2 * offset > height                    \* offset > height / 2
       THEN [w EXCEPT !.dom = insertBefore(w.dom, d, i + 1)]  \* li.nextSibling
       ELSE [w EXCEPT !.dom = insertBefore(w.dom, d, i)]

\* taskList 'drop' with the dataTransfer text draggedId
drop(w, draggedId) ==
  IF ~Truthy(draggedId) THEN w
  ELSE LET newOrder == [i \in 1..Len(w.dom) |-> w.dom[i].id] IN
       renderTasks(reorderTasks(w, newOrder))

\* 9. the DOMContentLoaded handler's effect on the world
domContentLoaded(w) == renderTasks(loadFromStorage(w))

-----------------------------------------------------------------------------
(* The state machine *)

World ==
  [tasks |-> tasks, heap |-> heap, filter |-> filter, storage |-> storage,
   dom |-> dom, trace |-> <<>>]

RECURSIVE Dedup(_)
Dedup(seq) ==
  IF seq = <<>> THEN <<>>
  ELSE LET front == Dedup(SubSeq(seq, 1, Len(seq) - 1))
           x == seq[Len(seq)]
       IN IF \E i \in 1..Len(front) : front[i] = x THEN front ELSE Append(front, x)

\* Garbage collection: the Task objects no longer referred to by the store or
\* by a li's listeners are dropped and the references renumbered in order of
\* first use, so that a state does not depend on allocation history.
Collect(w) ==
  LET used == Dedup(w.tasks \o [i \in 1..Len(w.dom) |-> w.dom[i].task])
      name(r) == CHOOSE i \in 1..Len(used) : used[i] = r
  IN [w EXCEPT
        !.heap = [i \in 1..Len(used) |-> w.heap[used[i]]],
        !.tasks = [i \in 1..Len(w.tasks) |-> name(w.tasks[i])],
        !.dom = [i \in 1..Len(w.dom) |-> [w.dom[i] EXCEPT !.task = name(@)]]]

\* the world after a handler has returned, and the record of the call: the
\* handler or method that ran and what it did
Becomes(w, op) ==
  \E c \in {Collect(w)} :
  /\ tasks' = c.tasks
  /\ heap' = c.heap
  /\ filter' = c.filter
  /\ storage' = c.storage
  /\ dom' = c.dom
  /\ last' = [op |-> op, trace |-> c.trace]

\* the clock value at page load: every stored id was drawn before it
FirstNow == MaxStored + 1

\* what the user types into a title field and into a description field
TitleInputs == {Str(<<>>), Str(<<"\t", " ">>), Str(<<" ", "b", "\n">>)}
DescInputs == {Str(<<>>), Str(<<"d", "\t">>)}

\* what a caller passes to the store's methods
IdInputs == {Num(1), Num(FirstNow)}

\* title and description given to addTask (description may be left out)
AddInputs ==
  {<<Str(<<>>), Str(<<"d">>)>>, <<Str(<<" ">>), Undef>>, <<Str(<<"b">>), Undef>>}

PartialInputs ==
  {[title |-> Str(<<"b">>), description |-> Undef],
   [title |-> Undef, description |-> Str(<<"d">>)],
   [title |-> Num(7), description |-> Str(<<>>)],
   [title |-> Str(<<"b">>), description |-> Null]}

\* repetition-free sequences over a set
Arrangements(S) ==
  {q \in UNION {[1..n -> S] : n \in 0..Cardinality(S)} :
     \A i, j \in 1..Len(q) : i # j => q[i] # q[j]}

FilterValues == {"all", "active", "completed"}

\* a task record as an earlier session's saveToStorage wrote it
StoredTask(n, done) ==
  JObj([id |-> Num(n), title |-> Str(<<"a">>), description |-> Str(<<>>),
        completed |-> Bool(done)])

\* what the page may find under 'colorfulTodoTasks' when it loads
StoredValues ==
  {Absent, EmptyText, Garbage, Json(JObj([x \in {} |-> Null])), Json(JArr(<<Null>>))}
  \cup UNION {{Json(JArr([i \in 1..n |-> StoredTask(i, done[i])])) :
                  done \in [1..n -> BOOLEAN]} : n \in 0..MaxStored}

\* the page once the script has run, DOMContentLoaded pending: the handlers
\* of sections 5 to 8 are registered and TaskManager can be called
Loaded ==
  /\ tasks = <<>>
  /\ heap = <<>>
  /\ filter = "all"
  /\ storage \in StoredValues
  /\ darkTheme = FALSE
  /\ dom = <<>>
  /\ dragData = Str(<<>>)
  /\ loaded = FALSE
  /\ phase = "idle"
  /\ now = FirstNow
  /\ last = [op |-> "script", trace |-> <<>>]

\* no theme was ever chosen
Init == Loaded /\ themeStored = "absent"

\* arrays under 'colorfulTodoTasks' that no saveToStorage wrote: their
\* elements are not task records (a number, an object without properties)
ForeignArrays == {Json(JArr(<<Num(1)>>)), Json(JArr(<<JObj([x \in {} |-> Null])>>))}

\* any earlier choice of theme, and any text under the tasks' key
InitTheme ==
  /\ tasks = <<>>
  /\ heap = <<>>
  /\ filter = "all"
  /\ storage \in StoredValues \cup ForeignArrays
  /\ darkTheme = FALSE
  /\ dom = <<>>
  /\ dragData = Str(<<>>)
  /\ loaded = FALSE
  /\ phase = "idle"
  /\ now = FirstNow
  /\ last = [op |-> "script", trace |-> <<>>]
  /\ themeStored \in {"absent", "dark", "light"}

\* document 'DOMContentLoaded': fired once per page load, whatever the user
\* has done since the script ran
DOMContentLoaded ==
  /\ ~loaded
  /\ Becomes(domContentLoaded(World), "DOMContentLoaded")
  /\ darkTheme' = (themeStored = "dark")      \* applyStoredTheme
  /\ loaded' = TRUE
  /\ UNCHANGED <<themeStored, dragData, phase, now>>

\* the page is loaded again: the script starts over, localStorage stays
Reload ==
  /\ phase = "idle"
  /\ tasks' = <<>> /\ heap' = <<>> /\ filter' = "all" /\ dom' = <<>>
  /\ darkTheme' = FALSE /\ dragData' = Str(<<>>) /\ loaded' = FALSE
  /\ last' = [op |-> "script", trace |-> <<>>]
  /\ UNCHANGED <<storage, themeStored, phase, now>>

\* a millisecond passes
Tick ==
  /\ now < FirstNow + MaxTicks
  /\ now' = now + 1
  /\ UNCHANGED <<tasks, heap, filter, storage, themeStored, darkTheme, dom,
                 dragData, loaded, phase, last>>

\* no drag gesture is in progress: the user can act on the page and the
\* store can be called, before the DOMContentLoaded handler as after it
Idle == phase = "idle"

Frame == UNCHANGED <<themeStored, darkTheme, dragData, loaded, phase, now>>

(* Calls of the store's methods *)

AddTaskCall(title, description) ==
  /\ Idle /\ Len(tasks) < MaxTasks
  /\ Becomes(addTask(World, now, title, description), "addTask")
  /\ Frame

AddTask == \E args \in AddInputs : AddTaskCall(args[1], args[2])

DeleteTaskCall(id) ==
  /\ Idle
  /\ Becomes(deleteTask(World, id), "deleteTask")
  /\ Frame

DeleteTask == \E id \in IdInputs : DeleteTaskCall(id)

EditTaskCall(id, data) ==
  /\ Idle
  /\ Becomes(editTask(World, id, data), "editTask")
  /\ Frame

EditTask == \E id \in IdInputs, data \in PartialInputs : EditTaskCall(id, data)

ToggleTaskCompleteCall(id) ==
  /\ Idle
  /\ Becomes(toggleTaskComplete(World, id), "toggleTaskComplete")
  /\ Frame

ToggleTaskComplete == \E id \in IdInputs : ToggleTaskCompleteCall(id)

ReorderTasksCall(newOrderArray) ==
  /\ Idle
  /\ Becomes(reorderTasks(World, newOrderArray), "reorderTasks")
  /\ Frame

ReorderTasks == \E newOrderArray \in Arrangements(IdInputs) : ReorderTasksCall(newOrderArray)

SetFilterCall(f) ==
  /\ Idle
  /\ Becomes(setFilter(World, f), "setFilter")
  /\ Frame

SetFilter == \E f \in FilterValues : SetFilterCall(f)

\* TaskManager.loadFromStorage() called directly
LoadFromStorage ==
  /\ Idle
  /\ Becomes(loadFromStorage(World), "loadFromStorage")
  /\ Frame

\* TaskManager.saveToStorage() called directly
SaveToStorage ==
  /\ Idle
  /\ Becomes(saveToStorage(World), "saveToStorage")
  /\ Frame

(* User events *)

SubmitEvent(titleValue, descValue) ==
  /\ Idle /\ Len(tasks) < MaxTasks
  /\ Becomes(submit(World, now, titleValue, descValue), "submit")
  /\ Frame

Submit == \E titleValue \in TitleInputs, descValue \in DescInputs :
            SubmitEvent(titleValue, descValue)

CheckboxChange ==
  /\ Idle
  /\ \E i \in 1..Len(dom) : Becomes(checkboxChange(World, i), "checkboxChange")
  /\ Frame

TitleBlurEvent(i, text) ==
  /\ Idle
  /\ Becomes(titleBlur(World, i, text), "titleBlur")
  /\ Frame

TitleBlur == \E i \in 1..Len(dom), text \in TitleInputs : TitleBlurEvent(i, text)

DescBlur ==
  /\ Idle
  /\ \E i \in 1..Len(dom), text \in DescInputs :
       Becomes(descBlur(World, i, text), "descBlur")
  /\ Frame

DeleteClick ==
  /\ Idle
  /\ \E i \in 1..Len(dom) : Becomes(deleteClick(World, i), "deleteClick")
  /\ Frame

\* filterNav 'click' on a button[data-filter]
FilterClick ==
  /\ Idle
  /\ \E f \in FilterValues : Becomes(setFilter(World, f), "filterClick")
  /\ Frame

\* themeToggle 'click'
ThemeClick ==
  /\ Idle
  /\ darkTheme' = ~darkTheme
  /\ themeStored' = IF darkTheme' THEN "dark" ELSE "light"
  /\ last' = [op |-> "themeClick", trace |-> <<>>]
  /\ UNCHANGED <<tasks, heap, filter, storage, dom, dragData, loaded, phase, now>>

(* The drag gesture *)

\* heights of a li's box, and how far the page may be scrolled
Heights == {2, 3}
ScrollYs == {0, 4}

DragStart ==
  /\ Idle
  /\ \E i \in 1..Len(dom) :
       /\ Becomes(dragStart(World, i), "dragstart")
       /\ dragData' = StringOf(TaskOfLi(World, i).id)   \* dataTransfer.setData
  /\ phase' = "dragging"
  /\ UNCHANGED <<themeStored, darkTheme, loaded, now>>

\* where in the viewport the top of a li's box may be
Tops == {5}

DragOverEvent(i, clientY, top, height, scrollY) ==
  /\ phase = "dragging"
  /\ Becomes(dragOver(World, i, clientY, top, height, scrollY), "dragover")
  /\ Frame

\* the pointer moves over the i-th li, anywhere in its box
DragOver ==
  \E i \in 1..Len(dom), top \in Tops, height \in Heights, scrollY \in ScrollYs :
    \E inside \in 0..height :
      DragOverEvent(i, top + inside, top, height, scrollY)

\* the dragged li is released over the list
Drop ==
  /\ phase = "dragging"
  /\ Becomes(drop(World, dragData), "drop")
  /\ phase' = "dropped"
  /\ UNCHANGED <<themeStored, darkTheme, dragData, loaded, now>>

\* the gesture ends, after a drop or without one: the li it started on loses
\* the class (after a drop that rendered, that li is no longer in the list)
DragEnd ==
  /\ phase \in {"dragging", "dropped"}
  /\ Becomes(dragEnd(World), "dragend")
  /\ phase' = "idle"
  /\ dragData' = Str(<<>>)
  /\ UNCHANGED <<themeStored, darkTheme, loaded, now>>

\* something dragged from outside the page (a file: no text; a selection: its
\* text) is released over the list
ForeignDropEvent(text) ==
  /\ Idle
  /\ Becomes(drop(World, text), "foreignDrop")
  /\ Frame

ForeignDrop == \E text \in {Str(<<>>), Str(<<"a">>)} : ForeignDropEvent(text)

\* the page as its user drives it
Next ==
  \/ DOMContentLoaded \/ Reload \/ Tick
  \/ Submit \/ CheckboxChange \/ TitleBlur \/ DescBlur \/ DeleteClick
  \/ FilterClick \/ ThemeClick
  \/ DragStart \/ DragOver \/ Drop \/ DragEnd \/ ForeignDrop

Spec == Init /\ [][Next]_vars

\* the store as a caller of its methods drives it
NextStore ==
  \/ DOMContentLoaded \/ Reload \/ Tick
  \/ AddTask \/ DeleteTask \/ EditTask \/ ToggleTaskComplete \/ ReorderTasks
  \/ SetFilter \/ LoadFromStorage \/ SaveToStorage

SpecStore == Init /\ [][NextStore]_vars

\* adding tasks, through the form and by calling the store
NextForm ==
  \/ DOMContentLoaded \/ Reload \/ Tick
  \/ AddTask \/ Submit \/ SetFilter

SpecForm == Init /\ [][NextForm]_vars

\* the theme alone
NextTheme == DOMContentLoaded \/ Reload \/ ThemeClick

SpecTheme == InitTheme /\ [][NextTheme]_vars

-----------------------------------------------------------------------------
(* Properties *)

\* the collection: the Task objects of the store, in order
Collection == Deref(tasks, heap)

\* the Task references the list shows, in order
Displayed == [i \in 1..Len(dom) |-> dom[i].task]

Count(seq, x) == Cardinality({i \in 1..Len(seq) : seq[i] = x})

\* two sequences hold the same elements, each as often
SameMembers(a, b) ==
  /\ Len(a) = Len(b)
  /\ \A i \in 1..Len(a) : Count(a, a[i]) = Count(b, a[i])

\* the task records of a stored array (none when the value is no array)
StoredItems(st) == IF st.k = "json" /\ st.v.t = "arr" THEN st.v.items ELSE <<>>

\* the predicate of a filter value, as the specification gives it
Wanted(task, f) ==
  CASE f = "active" -> task.completed = Bool(FALSE)
    [] f = "completed" -> task.completed = Bool(TRUE)
    [] OTHER -> TRUE

\* the projection of a collection under a filter, in the collection's order
RECURSIVE Projection(_, _, _)
Projection(tks, hp, f) ==
  IF tks = <<>> THEN <<>>
  ELSE IF Wanted(hp[Head(tks)], f)
       THEN <<Head(tks)>> \o Projection(Tail(tks), hp, f)
       ELSE Projection(Tail(tks), hp, f)

HasId(c, id) == \E i \in 1..Len(c) : c[i].id = id

\* C1: after any sequence of add operations the tasks of the collection have
\* pairwise distinct ids, also when two adds read the same clock value.
C1_DistinctIds ==
  \A i, j \in 1..Len(tasks) : i # j => Collection[i].id # Collection[j].id

\* C2: a completed drag gesture only permutes the collection: under every
\* filter the tasks in the store and in storage after the drop are those
\* before it, so that no task the filter hides is lost.
C2_DropOnlyPermutes ==
  [][(phase = "dragging" /\ last'.op = "drop") =>
       /\ SameMembers(Collection', Collection)
       /\ SameMembers(StoredItems(storage'), StoredItems(storage))]_vars

\* C3: saving the collection and loading it into a fresh store gives the same
\* {id, title, description, completed} records in the same order.
C3_RoundTrip ==
  LET saved == saveToStorage(World)
      fresh == [tasks |-> <<>>, heap |-> <<>>, filter |-> "all",
                storage |-> saved.storage, dom |-> <<>>, trace |-> <<>>]
      restored == loadFromStorage(fresh)
  IN Deref(restored.tasks, restored.heap) =
       [i \in 1..Len(tasks) |-> Plain(Collection[i])]

C3_Witness ==
  /\ last.op = "DOMContentLoaded" /\ Len(tasks) = 2
  /\ \E i \in 1..2 : /\ Collection[i].title = Str(<<>>)
                     /\ Collection[i].description = Str(<<"d">>)
                     /\ Collection[i].completed = Bool(TRUE)

\* the stored value is an array loadFromStorage maps to tasks
Loadable(st) ==
  st.k = "json" /\ st.v.t = "arr" /\ \A i \in 1..Len(st.v.items) : st.v.items[i] # Null

\* C4: between operations, once the stored array has been loaded or written,
\* the stored array is the serialization of the collection, in its order: every
\* mutation that takes effect (add, delete, edit, toggle, reorder) has saved.
C4_Persisted ==
  (loaded /\ Loadable(storage)) => storage = Stringify(tasks, heap)

C4_Witness ==
  /\ last.op = "reorderTasks" /\ Len(tasks) = 2
  /\ Collection[1].id = Num(FirstNow) /\ Collection[2].id = Num(1)
  /\ storage = Stringify(tasks, heap)

StoreMethods ==
  {"addTask", "deleteTask", "editTask", "toggleTaskComplete", "reorderTasks", "setFilter"}

\* the handler that ran last was a user's, and it called the store
EndedInStoreCall ==
  /\ last.op \in {"submit", "deleteClick", "titleBlur", "descBlur", "checkboxChange",
                  "filterClick", "drop", "foreignDrop"}
  /\ \E i \in 1..Len(last.trace) : last.trace[i] \in StoreMethods

\* C5: when a user's operation that ends in a store call has returned, the list
\* shows exactly the projection of the collection under the filter, in order.
C5_DisplayedIsProjection ==
  EndedInStoreCall =>
    /\ Displayed = Projection(tasks, heap, filter)
    /\ \A i \in 1..Len(dom) : dom[i].id = StringOf(heap[dom[i].task].id)

C5_Witness ==
  /\ last.op = "checkboxChange" /\ filter = "active"
  /\ Len(tasks) = 2 /\ Len(dom) = 1
  /\ Collection[1].completed = Bool(TRUE)

\* C6: for every filter value and every collection, renderTasks shows exactly
\* the tasks that satisfy the filter's predicate, in the collection's order.
C6_FilterCorrect ==
  \A f \in FilterValues :
    LET r == renderTasks([World EXCEPT !.filter = f]) IN
    [i \in 1..Len(r.dom) |-> r.dom[i].task] = Projection(tasks, heap, f)

C6_Witness ==
  /\ last.op = "filterClick" /\ filter = "completed"
  /\ Len(tasks) = 2 /\ Displayed = <<2>>
  /\ Collection[1].completed = Bool(FALSE)

\* the tasks of c whose id is q[1], then those whose id is q[2], and so on
RECURSIVE InOrderOf(_, _)
InOrderOf(c, q) ==
  IF q = <<>> THEN <<>>
  ELSE SelectSeq(c, LAMBDA task : task.id = Head(q)) \o InOrderOf(c, Tail(q))

\* C7: for every collection and every repetition-free id sequence, reorder
\* leaves exactly the tasks whose ids occur in the sequence, in its order.
C7_ReorderExact ==
  \A q \in Arrangements(IdInputs) :
    LET r == reorderTasks(World, q) IN
    Deref(r.tasks, r.heap) = InOrderOf(Collection, q)

\* a step of a drag gesture other than a drop: dragstart, dragover, dragend
GestureStep ==
  /\ loaded' = loaded
  /\ \/ phase = "idle" /\ phase' = "dragging"
     \/ phase = "dragging" /\ phase' \in {"dragging", "idle"}

\* C8: a drag gesture that ends without a drop leaves the store as it was:
\* the collection and its order, the filter and the stored value.
C8_CancelKeepsStore ==
  [][GestureStep =>
       /\ Collection' = Collection
       /\ filter' = filter
       /\ storage' = storage]_vars

C8_Witness ==
  /\ phase = "idle" /\ last.op = "dragend"
  /\ Len(dom) = 2 /\ Displayed = <<2, 1>> /\ tasks = <<1, 2>>

\* C9 as stated: the store's add, called with a title that is empty after
\* trimming, changes neither collection nor storage and does not render.
C9_AddEmptyTitleIsNoOp ==
  [][\A args \in AddInputs :
       (~Truthy(Trim(args[1])) /\ last'.op = "addTask"
        /\ AddTaskCall(args[1], args[2])) =>
         /\ Collection' = Collection
         /\ storage' = storage
         /\ \A i \in 1..Len(last'.trace) : last'.trace[i] # "render"]_vars

\* C9 as amended: the form's submit handler, given a title that is empty after
\* trimming, changes neither collection nor storage, calls no store method and
\* does not render.
C9_SubmitEmptyTitleIsNoOp ==
  [][\A titleValue \in TitleInputs, descValue \in DescInputs :
       (~Truthy(Trim(titleValue)) /\ last'.op = "submit"
        /\ SubmitEvent(titleValue, descValue)) =>
         /\ Collection' = Collection
         /\ storage' = storage
         /\ dom' = dom
         /\ last'.trace = <<>>]_vars

C9_Witness ==
  last.op = "submit" /\ last.trace = <<>> /\ Len(tasks) = 1

\* C10: delete, edit and toggle called with an id no task has change neither
\* the collection nor the filter nor the stored value nor the list.
C10_MissingTargetIsNoOp ==
  [][\A id \in IdInputs :
       (/\ ~HasId(Collection, id)
        /\ last'.op \in {"deleteTask", "toggleTaskComplete", "editTask"}
        /\ \/ DeleteTaskCall(id)
           \/ ToggleTaskCompleteCall(id)
           \/ \E data \in PartialInputs : EditTaskCall(id, data)) =>
         /\ Collection' = Collection
         /\ filter' = filter
         /\ storage' = storage
         /\ dom' = dom]_vars

C10_Witness ==
  /\ last.op \in {"deleteTask", "editTask", "toggleTaskComplete"}
  /\ Len(last.trace) = 1
  /\ Len(tasks) = 2

\* an element of a stored array that is a task record: an object with the
\* four properties of a task
IsTaskRecord(item) ==
  /\ item.t = "obj"
  /\ DOMAIN item.props = {"id", "title", "description", "completed"}
  /\ item.props.id.t = "num" /\ item.props.title.t = "str"
  /\ item.props.description.t = "str" /\ item.props.completed.t = "bool"

\* the stored value is an array of task records
IsTaskArray(st) ==
  st.k = "json" /\ st.v.t = "arr" /\ \A i \in 1..Len(st.v.items) : IsTaskRecord(st.v.items[i])

\* C11: when the stored value is missing, unparseable, no array, or an array
\* with an element that is no task record, the page still starts: the
\* collection is left empty, the theme is applied and the list is rendered.
C11_FailSoftLoad ==
  [][(~loaded /\ loaded' /\ ~IsTaskArray(storage)) =>
       /\ tasks' = <<>>
       /\ darkTheme' = (themeStored = "dark")
       /\ last'.op = "DOMContentLoaded"
       /\ \E i \in 1..Len(last'.trace) : last'.trace[i] = "render"]_vars

\* the Task objects the list shows, in order
DisplayedTasks == [i \in 1..Len(dom) |-> heap[dom[i].task]]

\* a step that handles a drop whose dataTransfer carries text
DropCarryingId ==
  \/ Truthy(dragData) /\ last'.op = "drop" /\ Drop
  \/ last'.op = "foreignDrop" /\ ForeignDropEvent(Str(<<"a">>))

\* C12: a drop that carries a dragged id leaves the collection in the order
\* the list's items had when the drop fired, and the list rendered after it
\* shows the collection in that order.
C12_DropCommitsListOrder ==
  [][DropCarryingId =>
       /\ Collection' = DisplayedTasks
       /\ DisplayedTasks' = Collection']_vars

\* C13 as stated: for every task of the collection, editTask called with the
\* task's own title leaves collection and stored value as they are and does
\* not write the storage key.
C13_EditSameTitleWritesNothing ==
  \A i \in 1..Len(tasks) :
    LET r == editTask(World, Collection[i].id,
                      [title |-> Collection[i].title, description |-> Undef])
    IN /\ Deref(r.tasks, r.heap) = Collection
       /\ r.storage = storage
       /\ \A k \in 1..Len(r.trace) : r.trace[k] # "save"

\* C13 as amended: a blur of a title field whose trimmed text is the task's
\* title does not call editTask: collection, stored value and list are as
\* they were and the storage key is not written.
C13_BlurSameTitleWritesNothing ==
  [][\A i \in 1..Len(dom), text \in TitleInputs :
       (/\ Trim(text) = TaskOfLi(World, i).title
        /\ last'.op = "titleBlur"
        /\ TitleBlurEvent(i, text)) =>
         /\ Collection' = Collection
         /\ storage' = storage
         /\ dom' = dom
         /\ last'.trace = <<>>]_vars

C13_Witness ==
  /\ last.op = "titleBlur" /\ last.trace = <<>>
  /\ Len(dom) = 2
  /\ \A i \in 1..Len(dom) : DisplayedTasks[i].title = Str(<<"b">>)

\* C14: when a drag gesture has ended, also one that moved the dragged item
\* over others and was not dropped, the list shows the projection of the
\* collection under the filter, in the collection's order.
C14_IdleListIsProjection ==
  (phase = "idle" /\ last.op = "dragend") =>
    Displayed = Projection(tasks, heap, filter)

\* C15: on every dragover of a li other than the dragged one, wherever the
\* pointer, the li's box and the page's scroll position are, the dragged li
\* ends immediately after that li when the pointer is below the middle of
\* its box, and immediately before it otherwise.
C15_HoverMidpointRule ==
  [][\A i \in 1..Len(dom), top \in Tops, height \in Heights, scrollY \in ScrollYs :
       \A inside \in 0..height :
         LET d == queryDragging(World) IN
         (/\ d # 0 /\ d # i /\ last'.op = "dragover"
          /\ DragOverEvent(i, top + inside, top, height, scrollY)) =>
           \E p \in 1..Len(dom') :
             /\ dom'[p] = dom[d]
             /\ IF 2 * inside > height
                THEN p > 1 /\ dom'[p - 1] = dom[i]
                ELSE p < Len(dom') /\ dom'[p + 1] = dom[i]]_vars

\* every task of the collection has a non-empty string as its title
TitlesNonEmpty ==
  \A i \in 1..Len(tasks) : IsStr(Collection[i].title) /\ Collection[i].title.s # <<>>

\* C16: a title blur whose trimmed text is empty is dropped (the span shows
\* the task's title again, editTask is not called, nothing is stored);
\* editTask is called only when the trimmed text is not the task's title; and
\* no step of the page takes a collection with non-empty titles to one with
\* an empty title.
C16_BlurKeepsTitles ==
  [][/\ \A i \in 1..Len(dom), text \in TitleInputs :
          (last'.op = "titleBlur" /\ TitleBlurEvent(i, text)) =>
            /\ ~Truthy(Trim(text)) =>
                 /\ last'.trace = <<>>
                 /\ Collection' = Collection
                 /\ storage' = storage
                 /\ dom' = [dom EXCEPT ![i].title = TaskOfLi(World, i).title]
            /\ last'.trace # <<>> =>
                 /\ Truthy(Trim(text))
                 /\ Trim(text) # TaskOfLi(World, i).title
     /\ TitlesNonEmpty => TitlesNonEmpty']_vars

C16_Witness ==
  /\ last.op = "titleBlur" /\ last.trace = <<"editTask", "save", "render">>
  /\ Len(tasks) = 2 /\ TitlesNonEmpty
  /\ Collection[1].id = Num(1) /\ Collection[1].title = Str(<<"b">>)
  /\ dom[1].title = Str(<<"b">>)

\* the collection after is the collection before with one task at its end:
\* a new one with the clock's value as id, the given title and description,
\* not completed
AppendedTo(before, after, t, title, description) ==
  /\ Len(after) = Len(before) + 1
  /\ SubSeq(after, 1, Len(before)) = before
  /\ after[Len(after)] = [id |-> Num(t), title |-> title,
                          description |-> description, completed |-> Bool(FALSE)]

\* reorderTasks of a collection [A, B] with the ids of B and A gives [B, A]
ExchangedByReorder(w) ==
  LET c == Deref(w.tasks, w.heap)
      r == reorderTasks(w, <<c[2].id, c[1].id>>)
  IN Deref(r.tasks, r.heap) = <<c[2], c[1]>>

\* C17: addTask with a non-empty title, called directly or by the form,
\* appends one task with the given title and description and completed false
\* and leaves the tasks before it as they were, in their order; two tasks
\* added with ids a and b are stored as [B, A] after reorderTasks([b, a]).
C17_AddAppends ==
  [][/\ \A args \in AddInputs :
          (Truthy(Trim(args[1])) /\ last'.op = "addTask"
           /\ AddTaskCall(args[1], args[2])) =>
            AppendedTo(Collection, Collection', now, args[1],
                       IF args[2] = Undef THEN Str(<<>>) ELSE args[2])
     /\ \A titleValue \in TitleInputs, descValue \in DescInputs :
          (Truthy(Trim(titleValue)) /\ last'.op = "submit"
           /\ SubmitEvent(titleValue, descValue)) =>
            AppendedTo(Collection, Collection', now, Trim(titleValue), Trim(descValue))
     /\ (/\ last'.op \in {"addTask", "submit"} /\ last'.trace # <<>>
         /\ Len(tasks') = 2 /\ Collection'[1].id # Collection'[2].id) =>
           ExchangedByReorder(World')]_vars

C17_Witness ==
  /\ last.op = "addTask" /\ Len(tasks) = 2
  /\ Collection[1].id = Num(1) /\ Collection[1].completed = Bool(TRUE)
  /\ Collection[2] = [id |-> Num(FirstNow + 1), title |-> Str(<<"b">>),
                       description |-> Str(<<>>), completed |-> Bool(FALSE)]

\* C18: toggleTaskComplete of an id some task has negates the completed flag
\* of one task with that id and changes nothing else: not that task's id,
\* title and description, no other task, not the order, not the filter; a
\* second toggle of the same id gives the collection back.
C18_ToggleFlipsOnlyCompleted ==
  [][\A id \in IdInputs :
       (HasId(Collection, id) /\ last'.op = "toggleTaskComplete"
        /\ ToggleTaskCompleteCall(id)) =>
         /\ \E k \in 1..Len(tasks) :
              /\ Collection[k].id = id
              /\ Collection' =
                   [Collection EXCEPT ![k].completed = Bool(~Collection[k].completed.b)]
         /\ filter' = filter
         /\ LET again == toggleTaskComplete(World', id)
            IN Deref(again.tasks, again.heap) = Collection]_vars

C18_Witness ==
  /\ last.op = "toggleTaskComplete" /\ last.trace = <<"toggleTaskComplete", "save", "render">>
  /\ Len(tasks) = 2
  /\ Collection[1].id = Num(1) /\ Collection[1].completed = Bool(FALSE)
  /\ Collection[2].id = Num(2) /\ Collection[2].completed = Bool(TRUE)

\* C19: editTask of an id some task has assigns, to one task with that id,
\* the title and the description that the data object gives as strings; a
\* property that is absent or no string leaves the field as it was; the
\* task's id and completed flag, the other tasks and the order stay.
C19_EditAssignsStringsOnly ==
  [][\A id \in IdInputs, data \in PartialInputs :
       (HasId(Collection, id) /\ last'.op = "editTask"
        /\ EditTaskCall(id, data)) =>
         \E k \in 1..Len(tasks) :
           /\ Collection[k].id = id
           /\ Collection' =
                [Collection EXCEPT
                   ![k].title = IF data.title.t = "str" THEN data.title ELSE @,
                   ![k].description =
                      IF data.description.t = "str" THEN data.description ELSE @]]_vars

C19_Witness ==
  /\ last.op = "editTask" /\ last.trace = <<"editTask", "save", "render">>
  /\ Len(tasks) = 2
  /\ Collection[1] = [id |-> Num(1), title |-> Str(<<"b">>),
                       description |-> Str(<<"d">>), completed |-> Bool(TRUE)]
  /\ Collection[2] = [id |-> Num(2), title |-> Str(<<"a">>),
                       description |-> Str(<<>>), completed |-> Bool(FALSE)]

\* C20: setFilter assigns the filter and changes neither the collection nor
\* the stored value; when the page is loaded again the script starts with the
\* filter 'all', whatever it was before and whatever is stored; and the
\* DOMContentLoaded handler, which reads what is stored, leaves the filter as
\* it finds it: 'all' when it runs on the page as the script left it, the
\* filter chosen since when the user has chosen one before it ran.
C20_FilterSessionLocal ==
  [][/\ \A f \in FilterValues :
          (last'.op = "setFilter" /\ SetFilterCall(f)) =>
            /\ filter' = f
            /\ Collection' = Collection
            /\ storage' = storage
            /\ themeStored' = themeStored
     /\ (last'.op = "script" /\ Reload) => filter' = "all"
     /\ (~loaded /\ loaded') =>
          /\ filter' = filter
          /\ last.op = "script" => filter' = "all"]_vars

C20_Witness ==
  /\ loaded /\ last.op = "setFilter" /\ filter = "completed"
  /\ Len(tasks) = 2 /\ dom = <<>>
  /\ storage = Stringify(tasks, heap)

====
